---- MODULE Spec2Model ----
(***************************************************************************)
(* A model of src/cli.py: the two core functions process_file_core and     *)
(* list_items_core, and the `process` command that drives the first one    *)
(* over a list of files.                                                   *)
(*                                                                         *)
(* Representation.                                                         *)
(*   - A file or directory name is a sequence of one-character strings.    *)
(*   - A path is a sequence of names (its components, from the root).      *)
(*   - A text is a sequence of Unicode code points (integers), so that     *)
(*     str.upper / str.lower are computed, not assumed.                    *)
(*   - The filesystem is a function from the existing paths to nodes.      *)
(***************************************************************************)
EXTENDS Integers, Sequences, FiniteSets, TLC

VARIABLES
    fs,          \* the filesystem: [path -> node], domain = existing paths
    fs0,         \* the filesystem as it was when the command started
    files,       \* process: the `files` argument (a sequence of paths)
    transform,   \* process / process_file_core: the transform name
    output_dir,  \* process: the --output option (NoDir when not given)
    dry_run,     \* process: --dry-run
    yes,         \* process: --yes
    pc,          \* where the running function is
    idx,         \* process: position of the for loop in `files`
    errors,      \* process: the `errors` list
    exit_code,   \* process: the status the command ended with (NoExit: running)
    events,      \* what the run has done so far, in order
    ret,         \* the value a core function returned, or what it raised
    directory,   \* list_items_core: the `directory` argument
    pattern,     \* list_items_core: the `pattern` argument
    pending,     \* list_items_core: matched paths the glob has not yielded yet
    items        \* list_items_core: the `items` list

vars == <<fs, fs0, files, transform, output_dir, dry_run, yes, pc, idx, errors,
          exit_code, events, ret, directory, pattern, pending, items>>

(***************************************************************************)
(* Bounds of the model.                                                    *)
(***************************************************************************)
MaxFiles == 3
MaxLen == 2

----------------------------------------------------------------------------
(***************************************************************************)
(* Sequences.                                                              *)
(***************************************************************************)
Front(s) == SubSeq(s, 1, Len(s) - 1)

Last(s) == s[Len(s)]

RECURSIVE Flatten(_)
Flatten(ss) == IF ss = <<>> THEN <<>> ELSE Head(ss) \o Flatten(Tail(ss))

SeqsUpTo(S, n) == UNION {[1..k -> S] : k \in 0..n}

\* str.rfind(c), 1-based; 0 when c does not occur (Python: -1).
RFind(s, c) ==
    LET at == {i \in 1..Len(s) : s[i] = c}
    IN  IF at = {} THEN 0 ELSE CHOOSE i \in at : \A j \in at : j <= i

----------------------------------------------------------------------------
(***************************************************************************)
(* Text: str.upper, str.lower, and the newline translation of read_text.   *)
(***************************************************************************)
CR == 13
LF == 10

\* str.upper of one character (the full Unicode mapping: U+00DF gives "SS").
UpperChar(c) ==
    IF c >= 97 /\ c <= 122 THEN <<c - 32>>
    ELSE IF c = 223 THEN <<83, 83>>
    ELSE <<c>>

\* str.lower of one character (U+0130 gives "i" followed by U+0307).
LowerChar(c) ==
    IF c >= 65 /\ c <= 90 THEN <<c + 32>>
    ELSE IF c = 304 THEN <<105, 775>>
    ELSE <<c>>

StrUpper(s) == Flatten([i \in 1..Len(s) |-> UpperChar(s[i])])

StrLower(s) == Flatten([i \in 1..Len(s) |-> LowerChar(s[i])])

\* Text mode with newline=None: "\r\n" and a lone "\r" are read as "\n".
RECURSIVE Newlines(_)
Newlines(s) ==
    IF s = <<>> THEN <<>>
    ELSE IF Head(s) = CR
         THEN IF Len(s) >= 2 /\ s[2] = LF
              THEN <<LF>> \o Newlines(Tail(Tail(s)))
              ELSE <<LF>> \o Newlines(Tail(s))
    ELSE <<Head(s)>> \o Newlines(Tail(s))

----------------------------------------------------------------------------
(***************************************************************************)
(* Names and paths (pathlib).                                              *)
(***************************************************************************)
Str_upper == <<"u", "p", "p", "e", "r">>
Str_lower == <<"l", "o", "w", "e", "r">>

\* The names of the files processed: the second is the name `-t upper` gives
\* the output of the first.
Name_a == <<"a", ".", "t">>
Name_a_upper == <<"a", "_", "u", "p", "p", "e", "r", ".", "t">>

\* Transform names: the two known ones, an unknown one, and an unknown one
\* holding a path separator.
Transforms == {Str_upper, Str_lower, <<"x">>, <<"x", "/", "y">>}

\* PurePath.suffix: from the last dot, unless the dot is first or last.
Suffix(name) ==
    LET i == RFind(name, ".")
    IN  IF 1 < i /\ i < Len(name) THEN SubSeq(name, i, Len(name)) ELSE <<>>

\* PurePath.stem
Stem(name) ==
    LET i == RFind(name, ".")
    IN  IF 1 < i /\ i < Len(name) THEN SubSeq(name, 1, i - 1) ELSE name

\* The components of a relative path string: split at "/", the empty and the
\* "." components dropped.
Parts(s) ==
    LET seps == {0} \cup {i \in 1..Len(s) : s[i] = "/"}
        next(a) == CHOOSE b \in (seps \ 0..a) \cup {Len(s) + 1} :
                       \A c \in (seps \ 0..a) \cup {Len(s) + 1} : b <= c
        part(a) == SubSeq(s, a + 1, next(a) - 1)
        kept == {a \in seps : part(a) # <<>> /\ part(a) # <<".">>}
        nth(k) == CHOOSE a \in kept : Cardinality({b \in kept : b <= a}) = k
    IN  [k \in 1..Cardinality(kept) |-> part(nth(k))]

----------------------------------------------------------------------------
(***************************************************************************)
(* The filesystem.  A node is a regular file (its characters as stored,    *)
(* whether they decode as text, whether it may be opened for writing) or   *)
(* a directory.                                                            *)
(***************************************************************************)
FileNode(data, text, w) == [kind |-> "file", data |-> data, text |-> text, w |-> w]

DirNode == [kind |-> "dir", data |-> <<>>, text |-> FALSE, w |-> TRUE]

Exists(f, p) == p \in DOMAIN f

IsDir(f, p) == Exists(f, p) /\ f[p].kind = "dir"

IsFile(f, p) == Exists(f, p) /\ f[p].kind = "file"

\* Path.read_text(): the decoded text, or the exception open/read raises.
ReadText(f, p) ==
    IF ~Exists(f, p) THEN [raised |-> "FileNotFoundError", text |-> <<>>]
    ELSE IF f[p].kind = "dir" THEN [raised |-> "IsADirectoryError", text |-> <<>>]
    ELSE IF ~f[p].text THEN [raised |-> "UnicodeDecodeError", text |-> <<>>]
    ELSE [raised |-> "none", text |-> Newlines(f[p].data)]

\* write_text as it would be with open(path, "x"): an existing file is an error.
WriteText_exclusive(f, p, data) ==
    IF p = <<>> \/ ~IsDir(f, Front(p))
    THEN [raised |-> "FileNotFoundError", fs |-> f]
    ELSE IF Exists(f, p) THEN [raised |-> "FileExistsError", fs |-> f]
    ELSE [raised |-> "none",
          fs |-> [q \in DOMAIN f \cup {p} |->
                     IF q = p THEN FileNode(data, TRUE, TRUE) ELSE f[q]]]

\* Path.write_text(data): open(path, "w") creates or truncates the file and
\* writes data; when open raises, nothing is created or changed.  (A write
\* that fails after the file was opened, as on a full disk, is not modelled.)
WriteText(f, p, data) ==
    IF p = <<>> \/ ~IsDir(f, Front(p))
    THEN [raised |-> "FileNotFoundError", fs |-> f]
    ELSE IF IsDir(f, p) THEN [raised |-> "IsADirectoryError", fs |-> f]
    ELSE IF Exists(f, p) /\ ~f[p].w THEN [raised |-> "PermissionError", fs |-> f]
    ELSE [raised |-> "none",
          fs |-> [q \in DOMAIN f \cup {p} |->
                     IF q = p THEN FileNode(data, TRUE, TRUE) ELSE f[q]]]

----------------------------------------------------------------------------
(***************************************************************************)
(* process_file_core (src/cli.py, lines 40-58).                            *)
(***************************************************************************)
Raise(e, t) ==
    [raised |-> e, original_size |-> 0, processed_size |-> 0,
     transform |-> t, result |-> <<>>]

\* The two branches of lines 46-49 exchanged.
ApplyTransform_swapped(content, t) ==
    IF t = Str_upper THEN StrLower(content)
    ELSE IF t = Str_lower THEN StrUpper(content)
    ELSE content

ApplyTransform(content, t) ==
    IF t = Str_upper THEN StrUpper(content)
    ELSE IF t = Str_lower THEN StrLower(content)
    ELSE content

process_file_core(f, filepath, t) ==
    IF ~Exists(f, filepath) THEN Raise("FileNotFoundError", t)
    ELSE LET r == ReadText(f, filepath)
         IN  IF r.raised # "none" THEN Raise(r.raised, t)
             ELSE LET content == r.text
                      result == ApplyTransform(content, t)
                  IN  [raised |-> "none",
                       original_size |-> Len(content),
                       processed_size |-> Len(result),
                       transform |-> t,
                       result |-> result]

----------------------------------------------------------------------------
(***************************************************************************)
(* The process command (src/cli.py, lines 77-180).                         *)
(*                                                                         *)
(* The run is recorded in `events`, one record per thing done:             *)
(*   "ask"   Confirm.ask was called; ok is the answer                      *)
(*   "would" the dry-run preview of file i was printed                     *)
(*   "core"  process_file_core was called for file i; ok: it returned,     *)
(*           data: its result                                              *)
(*   "read"  read_text was called on path; ok: it returned, data: the text *)
(*   "write" write_text(data) was called on path; ok: it returned          *)
(***************************************************************************)
NoExit == -1
EXIT_OK == 0
EXIT_FAILED == 1
EXIT_SIGINT == 130

Event(op, i, path, data, ok) ==
    [op |-> op, i |-> i, path |-> path, data |-> data, ok |-> ok]

\* The --output option: not given (None), or a directory path.
NoDir == [given |-> FALSE, path |-> <<>>]
Dir(p) == [given |-> TRUE, path |-> p]

\* Path.cwd()
Cwd == << <<"w">> >>

\* output_dir or Path.cwd()                                      (line 135)
OutDir(o) == IF o.given THEN o.path ELSE Cwd

\* f"{file.stem}_{transform}{file.suffix}"                         (line 154)
OutputName(name, t) == Stem(name) \o <<"_">> \o t \o Suffix(name)

\* The components of the output names of the runs explored (a table of
\* Parts(OutputName(name, t)), which TLC evaluates once).
OutputParts ==
    [name \in {Name_a, Name_a_upper}, t \in Transforms |->
        Parts(OutputName(name, t))]

\* The output written beside the input file, whatever --output says.
OutputPath_beside_input(o, file, t) == Front(file) \o OutputParts[Last(file), t]

\* output_dir / f"{file.stem}_{transform}{file.suffix}"           (line 154)
OutputPath(o, file, t) == OutDir(o) \o OutputParts[Last(file), t]

\* Lines 121-126, the prompt: Confirm.ask returns the user's answer.
ConfirmDeclined ==
    /\ pc = "process"
    /\ Len(files) > 1 /\ ~yes /\ ~dry_run
    /\ events' = Append(events, Event("ask", 0, <<>>, <<>>, FALSE))
    /\ exit_code' = EXIT_SIGINT
    /\ pc' = "exit"
    /\ UNCHANGED <<fs, fs0, files, transform, output_dir, dry_run, yes, idx,
                   errors, ret, directory, pattern, pending, items>>

ConfirmAccepted ==
    /\ pc = "process"
    /\ Len(files) > 1 /\ ~yes /\ ~dry_run
    /\ events' = Append(events, Event("ask", 0, <<>>, <<>>, TRUE))
    /\ pc' = "confirmed"
    /\ UNCHANGED <<fs, fs0, files, transform, output_dir, dry_run, yes, idx,
                   errors, exit_code, ret, directory, pattern, pending, items>>

\* Line 122 with len(files) > 2: two files are processed without a prompt.
ConfirmSkipped_off_by_one ==
    /\ pc = "process"
    /\ ~(Len(files) > 2 /\ ~yes /\ ~dry_run)
    /\ pc' = "confirmed"
    /\ UNCHANGED <<fs, fs0, files, transform, output_dir, dry_run, yes, idx,
                   errors, exit_code, events, ret, directory, pattern, pending,
                   items>>

\* Line 122, the condition is false: no prompt.
ConfirmSkipped ==
    /\ pc = "process"
    /\ ~(Len(files) > 1 /\ ~yes /\ ~dry_run)
    /\ pc' = "confirmed"
    /\ UNCHANGED <<fs, fs0, files, transform, output_dir, dry_run, yes, idx,
                   errors, exit_code, events, ret, directory, pattern, pending,
                   items>>

\* Lines 128-133 without the Exit(0): the preview, then the loop.
DryRun_falls_through ==
    /\ pc = "confirmed"
    /\ dry_run
    /\ events' = events \o
           [i \in 1..Len(files) |-> Event("would", i, files[i], <<>>, TRUE)]
    /\ errors' = <<>>
    /\ idx' = 1
    /\ pc' = "loop"
    /\ UNCHANGED <<fs, fs0, files, transform, output_dir, dry_run, yes,
                   exit_code, ret, directory, pattern, pending, items>>

\* Lines 128-133: the preview of every file, then Exit(0).
DryRun ==
    /\ pc = "confirmed"
    /\ dry_run
    /\ events' = events \o
           [i \in 1..Len(files) |-> Event("would", i, files[i], <<>>, TRUE)]
    /\ exit_code' = EXIT_OK
    /\ pc' = "exit"
    /\ UNCHANGED <<fs, fs0, files, transform, output_dir, dry_run, yes, idx,
                   errors, ret, directory, pattern, pending, items>>

\* Lines 135-146: the loop is entered with no error recorded.
BeginLoop ==
    /\ pc = "confirmed"
    /\ ~dry_run
    /\ errors' = <<>>
    /\ idx' = 1
    /\ pc' = "loop"
    /\ UNCHANGED <<fs, fs0, files, transform, output_dir, dry_run, yes,
                   exit_code, events, ret, directory, pattern, pending, items>>

\* What process_file_core does to the log: the call, and the read it makes
\* when the file exists.
CoreEvents(f, i, file, r) ==
    (IF Exists(f, file)
     THEN << Event("read", i, file, ReadText(f, file).text,
                   ReadText(f, file).raised = "none") >>
     ELSE <<>>)
    \o << Event("core", i, file, r.result, r.raised = "none") >>

\* Lines 148-167 with a `break` in the except clause: the first failure ends
\* the loop.
ProcessFile_abort_on_error ==
    /\ pc = "loop"
    /\ idx <= Len(files)
    /\ LET file == files[idx]
           result == process_file_core(fs, file, transform)
           output_path == OutputPath(output_dir, file, transform)
           written == WriteText(fs, output_path, result.result)
           e == IF result.raised # "none" THEN result.raised ELSE written.raised
       IN  /\ fs' = IF result.raised = "none" THEN written.fs ELSE fs
           /\ errors' = IF e # "none" THEN Append(errors, <<file, e>>) ELSE errors
           /\ events' = events \o CoreEvents(fs, idx, file, result) \o
                  (IF result.raised = "none"
                   THEN << Event("write", idx, output_path, result.result,
                                 written.raised = "none") >>
                   ELSE <<>>)
           /\ idx' = IF e # "none" THEN Len(files) + 1 ELSE idx + 1
    /\ UNCHANGED <<fs0, files, transform, output_dir, dry_run, yes, pc,
                   exit_code, ret, directory, pattern, pending, items>>

\* Lines 148-167, one iteration of the for loop: the body of the try, and
\* the except clause when process_file_core or write_text raised.
ProcessFile ==
    /\ pc = "loop"
    /\ idx <= Len(files)
    /\ LET file == files[idx]
           result == process_file_core(fs, file, transform)
           output_path == OutputPath(output_dir, file, transform)
           written == WriteText(fs, output_path, result.result)
           \* the exception the try body ends with, "none" when it completes
           e == IF result.raised # "none" THEN result.raised ELSE written.raised
       IN  /\ fs' = IF result.raised = "none" THEN written.fs ELSE fs
           /\ errors' = IF e # "none" THEN Append(errors, <<file, e>>) ELSE errors
           /\ events' = events \o CoreEvents(fs, idx, file, result) \o
                  (IF result.raised = "none"
                   THEN << Event("write", idx, output_path, result.result,
                                 written.raised = "none") >>
                   ELSE <<>>)
    /\ idx' = idx + 1
    /\ UNCHANGED <<fs0, files, transform, output_dir, dry_run, yes, pc,
                   exit_code, ret, directory, pattern, pending, items>>

\* Lines 169-180 without the Exit(1): the command always ends with status 0.
Summary_always_ok ==
    /\ pc = "loop"
    /\ idx > Len(files)
    /\ exit_code' = EXIT_OK
    /\ pc' = "exit"
    /\ UNCHANGED <<fs, fs0, files, transform, output_dir, dry_run, yes, idx,
                   errors, events, ret, directory, pattern, pending, items>>

\* Lines 169-180, after the loop: Exit(1) when errors is not empty, else the
\* function returns (status 0).
Summary ==
    /\ pc = "loop"
    /\ idx > Len(files)
    /\ exit_code' = IF errors # <<>> THEN EXIT_FAILED ELSE EXIT_OK
    /\ pc' = "exit"
    /\ UNCHANGED <<fs, fs0, files, transform, output_dir, dry_run, yes, idx,
                   errors, events, ret, directory, pattern, pending, items>>

----------------------------------------------------------------------------
(***************************************************************************)
(* The runs of the process command that are explored.  Typer has checked   *)
(* that every path of `files` exists and is a regular file (exists=True,   *)
(* dir_okay=False, lines 79-85) before the body runs.                      *)
(***************************************************************************)
Range(s) == {s[i] : i \in 1..Len(s)}

DirW == Cwd
DirD == << <<"d">> >>

\* The files that may be named on the command line: two of them share a
\* name, and one has the name `process -t upper` gives the output of another.
InputPaths == {Append(DirW, Name_a), Append(DirD, Name_a), Append(DirW, Name_a_upper)}

\* What an input file may be: text "a", text "ß" that may not be
\* overwritten, or bytes that do not decode.
FileStates ==
    {FileNode(<<97>>, TRUE, TRUE), FileNode(<<223>>, TRUE, FALSE),
     FileNode(<<>>, FALSE, TRUE)}

Idle ==
    /\ ret = <<>>
    /\ directory = <<>>
    /\ pattern = <<>>
    /\ pending = {}
    /\ items = <<>>

ProcessInit ==
    /\ files \in SeqsUpTo(InputPaths, MaxFiles) \ {<<>>}
    /\ \E st \in [Range(files) -> FileStates] :
           fs = [q \in {DirW, DirD} \cup Range(files) |->
                    IF q \in {DirW, DirD} THEN DirNode ELSE st[q]]
    /\ fs0 = fs
    /\ transform \in Transforms
    /\ output_dir \in {NoDir, Dir(DirD)}
    /\ dry_run \in BOOLEAN
    /\ yes \in BOOLEAN
    /\ pc = "process"
    /\ idx = 0
    /\ errors = <<>>
    /\ exit_code = NoExit
    /\ events = <<>>
    /\ Idle

ProcessNext ==
    \/ ConfirmDeclined
    \/ ConfirmAccepted
    \/ ConfirmSkipped
    \/ DryRun
    \/ BeginLoop
    \/ ProcessFile
    \/ Summary

Spec == ProcessInit /\ [][ProcessNext]_vars

----------------------------------------------------------------------------
(***************************************************************************)
(* process_file_core called on its own, on one path that is absent, does   *)
(* not decode, or holds any text of at most MaxLen characters.             *)
(***************************************************************************)
\* a, A, U+00DF (sharp s), U+0130 (dotted capital I), "\r", "\n"
Alphabet == {97, 65, 223, 304, CR, LF}

Texts == SeqsUpTo(Alphabet, MaxLen)

CoreTransforms == Transforms \cup {<<>>, <<"U", "p", "p", "e", "r">>}

CorePath == Append(DirW, Name_a)

CoreInit ==
    /\ files = <<CorePath>>
    /\ \/ fs = [q \in {DirW} |-> DirNode]
       \/ \E node \in {FileNode(<<>>, FALSE, TRUE)}
                        \cup {FileNode(c, TRUE, TRUE) : c \in Texts} :
              fs = [q \in {DirW, CorePath} |->
                       IF q = DirW THEN DirNode ELSE node]
    /\ fs0 = fs
    /\ transform \in CoreTransforms
    /\ output_dir = NoDir
    /\ dry_run = FALSE
    /\ yes = FALSE
    /\ pc = "core"
    /\ idx = 0
    /\ errors = <<>>
    /\ exit_code = NoExit
    /\ events = <<>>
    /\ Idle

\* The call: what is returned or raised is kept in ret.
CallCore ==
    /\ pc = "core"
    /\ ret' = process_file_core(fs, files[1], transform)
    /\ events' = events \o CoreEvents(fs, 1, files[1], ret')
    /\ pc' = "returned"
    /\ UNCHANGED <<fs, fs0, files, transform, output_dir, dry_run, yes, idx,
                   errors, exit_code, directory, pattern, pending, items>>

CoreNext == CallCore

SpecCore == CoreInit /\ [][CoreNext]_vars

----------------------------------------------------------------------------
(***************************************************************************)
(* list_items_core (src/cli.py, lines 60-73).                              *)
(***************************************************************************)
\* ord() of the characters that occur in the listings' names and types.
Ord ==
    [c \in {".", "B", "a", "b", "d", "e", "f", "i", "l", "r", "s", "t", "x"} |->
        CASE c = "." -> 46 [] c = "B" -> 66 [] c = "a" -> 97 [] c = "b" -> 98
          [] c = "d" -> 100 [] c = "e" -> 101 [] c = "f" -> 102
          [] c = "i" -> 105 [] c = "l" -> 108 [] c = "r" -> 114
          [] c = "s" -> 115 [] c = "t" -> 116 [] c = "x" -> 120]

\* a < b for two Python strings: by code point, a proper prefix first.
RECURSIVE StrLess(_, _)
StrLess(a, b) ==
    IF b = <<>> THEN FALSE
    ELSE IF a = <<>> THEN TRUE
    ELSE IF Head(a) # Head(b) THEN Ord[Head(a)] < Ord[Head(b)]
    ELSE StrLess(Tail(a), Tail(b))

Str_dir == <<"d", "i", "r">>
Str_file == <<"f", "i", "l", "e">>

\* fnmatch of one name against one pattern component ("*" and "?").
RECURSIVE Match(_, _)
Match(pat, name) ==
    IF pat = <<>> THEN name = <<>>
    ELSE IF Head(pat) = "*"
         THEN Match(Tail(pat), name) \/ (name # <<>> /\ Match(pat, Tail(name)))
    ELSE /\ name # <<>>
         /\ Head(pat) = "?" \/ Head(pat) = Head(name)
         /\ Match(Tail(pat), Tail(name))

Children(f, p) == {q \in DOMAIN f : Len(q) = Len(p) + 1 /\ Front(q) = p}

\* Path.glob: the pattern is split into components, and each component
\* selects among the children of what the components before it selected.
\* (The recursive component "**" is not among the patterns explored.)
RECURSIVE Select(_, _, _)
Select(f, from, segs) ==
    IF segs = <<>> THEN from
    ELSE Select(f,
                UNION {{q \in Children(f, p) : Match(Head(segs), Last(q))} :
                          p \in {d \in from : IsDir(f, d)}},
                Tail(segs))

Glob(f, dir, pat) == Select(f, {dir}, Parts(pat))

\* st_size of a file whose text is stored as UTF-8.
Utf8Len(c) == IF c < 128 THEN 1 ELSE IF c < 2048 THEN 2 ELSE 3

RECURSIVE StSize(_)
StSize(data) == IF data = <<>> THEN 0 ELSE Utf8Len(Head(data)) + StSize(Tail(data))

\* Lines 67-72, the entry of one path.  (The "modified" time is left out:
\* nothing that is checked reads it.)
Item(f, path) ==
    [name |-> Last(path),
     type |-> IF IsDir(f, path) THEN Str_dir ELSE Str_file,
     size |-> IF IsFile(f, path) THEN StSize(f[path].data) ELSE 0]

\* The sort key (x["type"], x["name"]), compared as Python compares tuples.
KeyLess(x, y) ==
    \/ StrLess(x.type, y.type)
    \/ x.type = y.type /\ StrLess(x.name, y.name)

\* sorted(): stable, an item is placed after the items whose key is not
\* greater than its own.
RECURSIVE InsertSorted(_, _)
InsertSorted(s, x) ==
    IF s = <<>> THEN <<x>>
    ELSE IF KeyLess(x, Head(s)) THEN <<x>> \o s
    ELSE <<Head(s)>> \o InsertSorted(Tail(s), x)

RECURSIVE Sorted(_)
Sorted(s) == IF s = <<>> THEN <<>> ELSE InsertSorted(Sorted(Front(s)), Last(s))

\* Lines 62-63 and the start of the loop of line 66.
ListBegin ==
    /\ pc = "list"
    /\ IF ~Exists(fs, directory)
       THEN /\ ret' = [raised |-> "FileNotFoundError", value |-> <<>>]
            /\ pc' = "returned"
            /\ pending' = pending
       ELSE /\ pending' = Glob(fs, directory, pattern)
            /\ pc' = "scan"
            /\ ret' = ret
    /\ items' = <<>>
    /\ UNCHANGED <<fs, fs0, files, transform, output_dir, dry_run, yes, idx,
                   errors, exit_code, events, directory, pattern>>

\* Lines 66-72, one iteration: the glob yields the matches in no fixed order.
ListAppend ==
    /\ pc = "scan"
    /\ \E path \in pending :
           /\ items' = Append(items, Item(fs, path))
           /\ pending' = pending \ {path}
    /\ UNCHANGED <<fs, fs0, files, transform, output_dir, dry_run, yes, pc, idx,
                   errors, exit_code, events, ret, directory, pattern>>

\* Line 73.
ListReturn ==
    /\ pc = "scan"
    /\ pending = {}
    /\ ret' = [raised |-> "none", value |-> Sorted(items)]
    /\ pc' = "returned"
    /\ UNCHANGED <<fs, fs0, files, transform, output_dir, dry_run, yes, idx,
                   errors, exit_code, events, directory, pattern, pending, items>>

(***************************************************************************)
(* The directories listed: any tree made of these paths (a path only with  *)
(* its parent), under the listed directory, or no directory at all.        *)
(***************************************************************************)
Name_B == <<"B", ".", "t">>
Name_s == <<"s">>
Name_b == <<"b">>
Name_x == <<"x">>

ListFiles ==
    {Append(DirW, Name_a), Append(DirW, Name_B),
     DirW \o <<Name_s, Name_a>>, DirW \o <<Name_b, Name_a>>}

ListDirs == {Append(DirW, Name_s), Append(DirW, Name_b), DirW \o <<Name_s, Name_x>>}

ListNode(p) ==
    IF p \in ListFiles
    THEN FileNode(IF Last(p) = Name_a THEN <<97>> ELSE <<223, 97>>, TRUE, TRUE)
    ELSE DirNode

Patterns ==
    {<<"*">>, <<"*", ".", "t">>, <<"?">>, <<"a", "*">>, <<"s">>,
     <<"*", "/", "*">>, <<"s", "/", "*">>}

ListInit ==
    /\ \E present \in SUBSET (ListFiles \cup ListDirs) :
           /\ \A p \in present : Front(p) \in present \cup {DirW}
           /\ fs = [p \in present \cup {DirW} |-> ListNode(p)]
    /\ fs0 = fs
    /\ directory \in {DirW, DirD}
    /\ pattern \in Patterns
    /\ files = <<>>
    /\ transform = <<>>
    /\ output_dir = NoDir
    /\ dry_run = FALSE
    /\ yes = FALSE
    /\ pc = "list"
    /\ idx = 0
    /\ errors = <<>>
    /\ exit_code = NoExit
    /\ events = <<>>
    /\ ret = <<>>
    /\ pending = {}
    /\ items = <<>>

ListNext ==
    \/ ListBegin
    \/ ListAppend
    \/ ListReturn

SpecList == ListInit /\ [][ListNext]_vars

----------------------------------------------------------------------------
(***************************************************************************)
(* What a run did, read off its log.                                       *)
(***************************************************************************)
EventsOf(op) == {n \in 1..Len(events) : events[n].op = op}

EventsAt(op, i) == {n \in EventsOf(op) : events[n].i = i}

Asked == EventsOf("ask") # {}

Declined == \E n \in EventsOf("ask") : ~events[n].ok

\* process_file_core was called for file i
Attempted(i) == EventsAt("core", i) # {}

\* the read or the transform of file i raised / its write raised
CoreFailed(i) == \E n \in EventsAt("core", i) : ~events[n].ok
WriteFailed(i) == \E n \in EventsAt("write", i) : ~events[n].ok
Failed(i) == CoreFailed(i) \/ WriteFailed(i)

\* file i was read, transformed and written without an exception
Succeeded(i) ==
    /\ \E n \in EventsAt("core", i) : events[n].ok
    /\ \E n \in EventsAt("write", i) : events[n].ok

\* the text read_text returned for file i
TextRead(i) == events[CHOOSE n \in EventsAt("read", i) : TRUE].data

\* The loop of the command ran and the command ended.
LoopEnded == pc = "exit" /\ ~dry_run /\ ~Declined

\* The path line 154 names, written out in full.
ExpectedPath(i) ==
    LET name == Last(files[i])
        dir == IF output_dir.given THEN output_dir.path ELSE << <<"w">> >>
    IN  dir \o Parts(Stem(name) \o <<"_">> \o transform \o Suffix(name))

\* The indices of the failed files, in list order.
RECURSIVE FailedUpTo(_)
FailedUpTo(n) ==
    IF n = 0 THEN <<>>
    ELSE IF Failed(n) THEN Append(FailedUpTo(n - 1), n) ELSE FailedUpTo(n - 1)

----------------------------------------------------------------------------
(* C1: process, not a dry run, confirmation not declined: when exactly one *)
(* file k of the list fails (process_file_core or write_text raises for    *)
(* it) and no other does, then at the end errors holds exactly one entry,  *)
(* for file k; every other file was attempted and write_text returned for  *)
(* its output path with the transform of the text read from that file, and *)
(* the output path exists; and the exit status is 1.  This holds for every *)
(* position k.                                                             *)
C1_OneFailureIsolated ==
    LoopEnded =>
        \A k \in 1..Len(files) :
            (Failed(k) /\ \A j \in 1..Len(files) \ {k} : ~Failed(j)) =>
                /\ Len(errors) = 1
                /\ errors[1][1] = files[k]
                /\ exit_code = EXIT_FAILED
                /\ \A j \in 1..Len(files) \ {k} :
                       /\ Attempted(j)
                       /\ \E n \in EventsAt("write", j) :
                              /\ events[n].ok
                              /\ events[n].path = ExpectedPath(j)
                              /\ events[n].data = ApplyTransform(TextRead(j), transform)
                       /\ IsFile(fs, ExpectedPath(j))

\* Three files, the middle one fails and the other two are written.
C1_Witness ==
    /\ LoopEnded
    /\ Len(files) = 3
    /\ Failed(2) /\ Succeeded(1) /\ Succeeded(3)
    /\ exit_code = EXIT_FAILED

(* C2: process with --dry-run, for every number of files and either value  *)
(* of --yes: no write_text call and no change of the filesystem, no call   *)
(* of process_file_core and no read, no confirmation prompt; the command   *)
(* is never stuck before it ends, and it ends with status 0.               *)
C2_DryRunTouchesNothing ==
    dry_run =>
        /\ fs = fs0
        /\ EventsOf("write") = {}
        /\ EventsOf("core") = {}
        /\ EventsOf("read") = {}
        /\ EventsOf("ask") = {}
        /\ pc = "exit" \/ ENABLED ProcessNext
        /\ pc = "exit" => exit_code = EXIT_OK

\* A dry run of several files without --yes has ended.
C2_Witness ==
    /\ dry_run /\ ~yes /\ Len(files) >= 2
    /\ pc = "exit"
    /\ Cardinality(EventsOf("would")) = Len(files)

(* C3: process with 2 or more files, no --yes and no --dry-run: the prompt *)
(* comes before any read or write (nothing else is done until it is        *)
(* answered), and when it is declined the command ends with status 130     *)
(* with no read, no write and an unchanged filesystem.  With exactly one   *)
(* file, or with --yes, there is no prompt.                                *)
C3_ConfirmFirst ==
    /\ (Len(files) >= 2 /\ ~yes /\ ~dry_run) =>
           /\ pc # "process" => Asked
           /\ events # <<>> => events[1].op = "ask"
           /\ Declined =>
                  /\ pc = "exit"
                  /\ exit_code = EXIT_SIGINT
                  /\ EventsOf("read") = {} /\ EventsOf("core") = {}
                  /\ EventsOf("write") = {}
                  /\ fs = fs0
    /\ (Len(files) = 1 \/ yes) => ~Asked

\* The prompt for two or more files was declined.
C3_Witness ==
    /\ Len(files) >= 2 /\ ~yes /\ ~dry_run
    /\ Declined
    /\ exit_code = EXIT_SIGINT

(* C4: the process command is never stuck before it ends, it ends with one *)
(* of the statuses 0, 1, 130, and: 130 exactly when the prompt was asked   *)
(* and declined; 1 exactly when the loop ran over the whole list and at    *)
(* least one failure was recorded; 0 exactly when the run was a dry run or *)
(* every file was processed and no failure was recorded.  Status 1 is not  *)
(* set before the last file has been attempted.                            *)
C4_ExitStatus ==
    /\ exit_code \in {NoExit, EXIT_OK, EXIT_FAILED, EXIT_SIGINT}
    /\ pc = "exit" <=> exit_code # NoExit
    /\ pc = "exit" \/ ENABLED ProcessNext
    /\ pc = "exit" =>
           /\ exit_code = EXIT_SIGINT <=> (Asked /\ Declined)
           /\ exit_code = EXIT_FAILED <=>
                  /\ ~dry_run
                  /\ idx = Len(files) + 1
                  /\ \A i \in 1..Len(files) : Attempted(i)
                  /\ errors # <<>>
           /\ exit_code = EXIT_OK <=>
                  \/ dry_run
                  \/ /\ idx = Len(files) + 1
                     /\ \A i \in 1..Len(files) : Succeeded(i)
                     /\ errors = <<>>
    /\ exit_code = EXIT_FAILED => Attempted(Len(files))
    /\ errors # <<>> <=> \E i \in 1..Len(files) : Failed(i)

\* A run of three files ended with status 1 after a failure of the first.
C4_Witness ==
    /\ pc = "exit"
    /\ exit_code = EXIT_FAILED
    /\ Len(files) = 3
    /\ Failed(1) /\ Attempted(3)

(* C5: in a batch, whether a file fails and what is written for it depend  *)
(* only on the file as it was when the command started and on the          *)
(* transform name: the outcome is that of processing the file alone on the *)
(* initial filesystem, also when an output path is the path of another     *)
(* input file.                                                             *)
C5_Independent ==
    LoopEnded =>
        \A i \in 1..Len(files) :
            LET alone == process_file_core(fs0, files[i], transform)
                alone_written == WriteText(fs0, ExpectedPath(i), alone.result)
            IN  /\ CoreFailed(i) <=> alone.raised # "none"
                /\ \A n \in EventsAt("write", i) :
                       /\ events[n].data = alone.result
                       /\ events[n].ok <=> alone_written.raised = "none"

\* No file of the list is at the output path of a file listed before it.
NoAliasing ==
    \A i, j \in 1..Len(files) : i < j => files[j] # ExpectedPath(i)

(* C5, the part that holds: the outcome of every file is that of           *)
(* processing it alone on the initial filesystem when no input file is at  *)
(* the output path of a file listed before it.                             *)
C5_IndependentUnlessAliased == NoAliasing => C5_Independent

(* C6: when two distinct input files have the same output path and reading *)
(* both and writing the first succeed, then writing the second succeeds    *)
(* too (the collision is not detected), neither is recorded as a failure,  *)
(* the errors list holds exactly the files whose own read or write raised, *)
(* the output path holds at the end the transform of the text of the file  *)
(* listed last among those written to it, and the status is 0 when no file *)
(* failed.                                                                 *)
C6_LastWriteWins ==
    LoopEnded =>
        /\ LET failed == FailedUpTo(Len(files))
           IN  /\ Len(errors) = Len(failed)
               /\ \A n \in 1..Len(failed) : errors[n][1] = files[failed[n]]
        /\ \A i, j \in 1..Len(files) :
               ( /\ i < j
                 /\ files[i] # files[j]
                 /\ ExpectedPath(i) = ExpectedPath(j)
                 /\ ~CoreFailed(i) /\ ~CoreFailed(j) /\ ~WriteFailed(i) ) =>
                   /\ Succeeded(i) /\ Succeeded(j)
                   /\ (\A k \in 1..Len(files) :
                           (k > j /\ ExpectedPath(k) = ExpectedPath(j)) => Failed(k))
                      => /\ IsFile(fs, ExpectedPath(j))
                         /\ fs[ExpectedPath(j)].data =
                                ApplyTransform(TextRead(j), transform)
                   /\ errors = <<>> => exit_code = EXIT_OK

\* Two files of the same name in two directories, with different texts,
\* were both processed: the output holds the second one's transform.
C6_Witness ==
    /\ LoopEnded
    /\ Len(files) = 2
    /\ files[1] # files[2]
    /\ ExpectedPath(1) = ExpectedPath(2)
    /\ Succeeded(1) /\ Succeeded(2)
    /\ exit_code = EXIT_OK
    /\ ApplyTransform(TextRead(1), transform) # ApplyTransform(TextRead(2), transform)
    /\ fs[ExpectedPath(2)].data = ApplyTransform(TextRead(2), transform)

\* With transform t, the file the loop is at would be recorded as a failure.
WouldFail(t) ==
    LET r == process_file_core(fs, files[idx], t)
    IN  \/ r.raised # "none"
        \/ WriteText(fs, OutputPath(output_dir, files[idx], t), r.result).raised
               # "none"

(* C8: with a transform name other than upper and lower,                   *)
(* process_file_core does not fail on an existing text file, its result is *)
(* the text unchanged and both sizes are len(text); and in the process     *)
(* command the name never by itself makes a file be recorded as a failure: *)
(* a file that is recorded as a failure would also have been with one of   *)
(* the names upper and lower.                                              *)
C8_UnknownNameHarmless ==
    [][ ( /\ pc = "loop" /\ idx <= Len(files)
          /\ transform \notin {Str_upper, Str_lower} ) =>
            LET read == ReadText(fs, files[idx])
                r == process_file_core(fs, files[idx], transform)
            IN  /\ read.raised = "none" =>
                       /\ r.raised = "none"
                       /\ r.result = read.text
                       /\ r.original_size = Len(read.text)
                       /\ r.processed_size = Len(read.text)
                /\ Len(errors') > Len(errors) =>
                       WouldFail(Str_upper) \/ WouldFail(Str_lower) ]_vars

(* C8, the part that holds: process_file_core called with a name other     *)
(* than upper and lower in the process command returns the text it read.   *)
C8_UnknownNameIsIdentity ==
    transform \notin {Str_upper, Str_lower} =>
        \A i \in 1..Len(files) : \A n \in EventsAt("core", i) :
            events[n].ok => events[n].data = TextRead(i)

(* C10: in every run of process, for each file of the list: when           *)
(* process_file_core returns, write_text is called exactly once, on        *)
(* <output_dir>/<stem>_<transform><suffix> (output_dir being the working   *)
(* directory when --output is not given) with the transform result; when   *)
(* it raises, write_text is not called.  Nothing is deleted, and a path is *)
(* created or changed only by such a call that returned, and then holds    *)
(* what the last of them wrote; all else is as it was.                     *)
C10_WriteFootprint ==
    /\ \A i \in 1..Len(files) :
           /\ (\E n \in EventsAt("core", i) : events[n].ok) =>
                  /\ Cardinality(EventsAt("write", i)) = 1
                  /\ \A n \in EventsAt("write", i) :
                         /\ events[n].path = ExpectedPath(i)
                         /\ events[n].data = ApplyTransform(TextRead(i), transform)
           /\ ~(\E n \in EventsAt("core", i) : events[n].ok) =>
                  EventsAt("write", i) = {}
    /\ DOMAIN fs0 \subseteq DOMAIN fs
    /\ \A p \in DOMAIN fs :
           LET wrote == {n \in EventsOf("write") : events[n].path = p /\ events[n].ok}
           IN  IF wrote = {}
               THEN p \in DOMAIN fs0 /\ fs[p] = fs0[p]
               ELSE /\ IsFile(fs, p)
                    /\ fs[p].data =
                           events[CHOOSE n \in wrote : \A m \in wrote : m <= n].data

\* Without --output: one file was written into the working directory, one
\* file could not be read, and nothing else changed.
C10_Witness ==
    /\ LoopEnded
    /\ ~output_dir.given
    /\ Len(files) = 2
    /\ Succeeded(1) /\ CoreFailed(2)
    /\ Cardinality(EventsOf("write")) = 1
    /\ ExpectedPath(1) \notin DOMAIN fs0
    /\ DOMAIN fs = DOMAIN fs0 \cup {ExpectedPath(1)}

----------------------------------------------------------------------------
(***************************************************************************)
(* process_file_core on its own (SpecCore).                                *)
(***************************************************************************)
CoreReturned == pc = "returned" /\ ret.raised = "none"

\* The text content of the file, as read_text gives it.
CoreText == Newlines(fs[CorePath].data)

\* The text with every character upper-cased / lower-cased.
Cased(text, t) ==
    IF t = Str_upper THEN Flatten([i \in 1..Len(text) |-> UpperChar(text[i])])
    ELSE Flatten([i \in 1..Len(text) |-> LowerChar(text[i])])

\* Every character of the text has a one-character upper / lower case.
SingleCased(text, t) ==
    \A i \in 1..Len(text) :
        Len(IF t = Str_upper THEN UpperChar(text[i]) ELSE LowerChar(text[i])) = 1

(* C7: for every text C of an existing file and the transform upper or     *)
(* lower, process_file_core returns processed_size = original_size =       *)
(* len(C), and result is C with every character upper-cased (lower-cased). *)
C7_CaseKeepsSize ==
    (CoreReturned /\ transform \in {Str_upper, Str_lower}) =>
        /\ ret.original_size = Len(CoreText)
        /\ ret.processed_size = ret.original_size
        /\ ret.result = Cased(CoreText, transform)

(* C7, amended: for every text C of an existing file (as read_text gives   *)
(* it) and the transform upper or lower, original_size = len(C), result is *)
(* C.upper() (C.lower()), processed_size = len(result) and is never less   *)
(* than original_size; the two sizes are equal exactly when every          *)
(* character of C has a one-character upper (lower) case.                  *)
C7_CaseSizes ==
    (CoreReturned /\ transform \in {Str_upper, Str_lower}) =>
        /\ ret.original_size = Len(CoreText)
        /\ ret.result = Cased(CoreText, transform)
        /\ ret.processed_size = Len(ret.result)
        /\ ret.processed_size >= ret.original_size
        /\ ret.processed_size = ret.original_size <=> SingleCased(CoreText, transform)
        /\ ret.transform = transform

\* upper of a two-character text with one sharp s: three characters.
C7_Witness ==
    /\ CoreReturned
    /\ transform = Str_upper
    /\ ret.original_size = 2
    /\ ret.processed_size = 3
    /\ ret.result # CoreText

----------------------------------------------------------------------------
(***************************************************************************)
(* list_items_core on its own (SpecList).                                  *)
(***************************************************************************)
ListReturned == pc = "returned" /\ ret.raised = "none"

\* The direct children of the listed directory whose name matches the pattern.
MatchingChildren == {c \in Children(fs, directory) : Match(pattern, Last(c))}

\* Ascending by (type, name), the directories before the files, and the
\* directories of size 0.
SortedByKindName(v) ==
    /\ \A m, n \in 1..Len(v) : m < n => ~KeyLess(v[n], v[m])
    /\ \A m, n \in 1..Len(v) :
           (v[m].type = Str_dir /\ v[n].type = Str_file) => m < n
    /\ \A m, n \in 1..Len(v) :
           (m < n /\ v[m].type = v[n].type) => ~StrLess(v[n].name, v[m].name)
    /\ \A n \in 1..Len(v) : v[n].type = Str_dir => v[n].size = 0

(* C9: for every existing directory and every pattern, list_items_core     *)
(* returns exactly the direct children that match the pattern, each once,  *)
(* ascending by (kind, name): the directories first, then the files, by    *)
(* name within each group, and every directory with size 0.                *)
C9_ListingSorted ==
    ListReturned =>
        /\ Len(ret.value) = Cardinality(MatchingChildren)
        /\ \A c \in MatchingChildren :
               \E n \in 1..Len(ret.value) : ret.value[n] = Item(fs, c)
        /\ SortedByKindName(ret.value)

(* C9, the part that holds for every pattern: one entry for each path the  *)
(* glob matched, in the order of (kind, name), directories with size 0;    *)
(* and the entries are the matching direct children when the pattern has   *)
(* no path separator.                                                      *)
C9_SortedEntriesOfGlob ==
    ListReturned =>
        /\ Len(ret.value) = Cardinality(Glob(fs, directory, pattern))
        /\ \A c \in Glob(fs, directory, pattern) :
               \E n \in 1..Len(ret.value) : ret.value[n] = Item(fs, c)
        /\ SortedByKindName(ret.value)
        /\ (\A i \in 1..Len(pattern) : pattern[i] # "/") => C9_ListingSorted

====
